---------------------------- MODULE Spec2Model ----------------------------
(***************************************************************************)
(* Model of generate_data.py: the Coordinate codec (as_gatherer_coord),    *)
(* the Zone Bucket aggregator (Aggregate.add), the emitter (the __repr__   *)
(* methods of Aggregate, GathererZone and GathererEntry) and the scraper   *)
(* (WowheadObject.__init__), with the Aggregate built from its object.     *)
(*                                                                         *)
(* Python floats are IEEE-754 binary64 values.  They are modelled exactly: *)
(* a nonzero float is a sign, a 53-bit significand and an exponent, and    *)
(* every float operation of the source rounds to nearest, ties to even.    *)
(* Natural numbers of arbitrary size are sequences of 16-bit limbs, least   *)
(* significant limb first, with no high zero limb (zero is << >>).         *)
(* Python ints are unbounded; a key is kept as a pair [hi, lo] standing    *)
(* for hi * 1000000 + lo with 0 <= lo < 1000000.                           *)
(***************************************************************************)
EXTENDS Integers, Sequences, FiniteSets, TLC

-----------------------------------------------------------------------------
(* Unbounded naturals as sequences of limbs (least significant first).     *)
(* The arithmetic is written as functions, so that an argument is a value  *)
(* by the time the body is evaluated.                                      *)

LimbBits == 16
Base == 2 ^ LimbBits

Limbs == Seq(Nat)

NatToLimbs[n \in Nat] ==
    IF n = 0 THEN << >> ELSE <<n % Base>> \o NatToLimbs[n \div Base]

LimbsToNat[b \in Limbs] ==
    IF b = << >> THEN 0 ELSE Head(b) + Base * LimbsToNat[Tail(b)]

(* b without its high zero limbs.                                          *)
Norm[b \in Limbs] ==
    IF b = << >> THEN << >>
    ELSE IF b[Len(b)] # 0 THEN b
    ELSE Norm[SubSeq(b, 1, Len(b) - 1)]

(* a + b + carry; normalised when a and b are.                             *)
AddLimbs[a \in Limbs, b \in Limbs, carry \in Nat] ==
    IF a = << >> /\ b = << >>
    THEN (IF carry = 0 THEN << >> ELSE <<carry>>)
    ELSE <<((IF a = << >> THEN 0 ELSE Head(a))
              + (IF b = << >> THEN 0 ELSE Head(b)) + carry) % Base>>
         \o AddLimbs[IF a = << >> THEN a ELSE Tail(a),
                     IF b = << >> THEN b ELSE Tail(b),
                     ((IF a = << >> THEN 0 ELSE Head(a))
                        + (IF b = << >> THEN 0 ELSE Head(b)) + carry) \div Base]

(* a - b - borrow for a >= b + borrow; the result is not normalised.       *)
SubLimbs[a \in Limbs, b \in Limbs, borrow \in Nat] ==
    IF a = << >> THEN << >>
    ELSE <<(Head(a) - (IF b = << >> THEN 0 ELSE Head(b)) - borrow) % Base>>
         \o SubLimbs[Tail(a),
                     IF b = << >> THEN b ELSE Tail(b),
                     IF Head(a) - (IF b = << >> THEN 0 ELSE Head(b)) - borrow < 0
                     THEN 1 ELSE 0]

(* -1, 0, 1 as a < b, a = b, a > b; both normalised.                       *)
CmpLimbs[a \in Limbs, b \in Limbs] ==
    IF Len(a) # Len(b) THEN (IF Len(a) < Len(b) THEN -1 ELSE 1)
    ELSE IF a = << >> THEN 0
    ELSE IF a[Len(a)] # b[Len(a)] THEN (IF a[Len(a)] < b[Len(a)] THEN -1 ELSE 1)
    ELSE CmpLimbs[SubSeq(a, 1, Len(a) - 1), SubSeq(b, 1, Len(a) - 1)]

(* b * c + carry for a small c (c <= 2^15); not normalised.                *)
MulSmall[b \in Limbs, c \in Nat, carry \in Nat] ==
    IF b = << >> THEN NatToLimbs[carry]
    ELSE <<(Head(b) * c + carry) % Base>>
         \o MulSmall[Tail(b), c, (Head(b) * c + carry) \div Base]

(* Long division of b by the small positive integer d (d <= 2^15):         *)
(* quotient (not normalised) and remainder.  DivStep brings down the limb  *)
(* h after the higher limbs gave the quotient and remainder rest.          *)
QuotRem == [q : Limbs, r : Nat]

DivStep[rest \in QuotRem, h \in Nat, d \in Nat] ==
    [q |-> <<(Base * rest.r + h) \div d>> \o rest.q, r |-> (Base * rest.r + h) % d]

DivSmall[b \in Limbs, d \in Nat] ==
    IF b = << >> THEN [q |-> << >>, r |-> 0]
    ELSE DivStep[DivSmall[Tail(b), d], Head(b), d]

(* Number of bits of n, of b; bit i of b (bit 0 is the lowest).            *)
BitLenSmall[n \in Nat] ==
    IF n = 0 THEN 0 ELSE 1 + BitLenSmall[n \div 2]

BitLen[b \in Limbs] ==
    IF b = << >> THEN 0
    ELSE IF b[Len(b)] = 0 THEN BitLen[SubSeq(b, 1, Len(b) - 1)]
    ELSE LimbBits * (Len(b) - 1) + BitLenSmall[b[Len(b)]]

Bit(b, i) ==
    IF i < 0 \/ i \div LimbBits + 1 > Len(b) THEN 0
    ELSE (b[i \div LimbBits + 1] \div (2 ^ (i % LimbBits))) % 2

(* Whether one of the bits 0..k-1 of b is set.                             *)
LowBitsSet(b, k) == \E i \in 0..(k - 1) : Bit(b, i) = 1

(* b * 2^k and floor(b / 2^k) for k >= 0, normalised.                      *)
ShiftLeft[b \in Limbs, k \in Nat] ==
    Norm[[i \in 1..(k \div LimbBits) |-> 0] \o MulSmall[b, 2 ^ (k % LimbBits), 0]]

ShiftRight[b \in Limbs, k \in Nat] ==
    IF k \div LimbBits >= Len(b) THEN << >>
    ELSE Norm[DivSmall[SubSeq(b, k \div LimbBits + 1, Len(b)), 2 ^ (k % LimbBits)].q]

-----------------------------------------------------------------------------
(* IEEE-754 binary64.  [s, m, e] is (-1)^s * m * 2^e with m a 53-bit       *)
(* significand (BitLen[m] = 53); zero is [s |-> 0, m |-> << >>, e |-> 0].  *)
(* Subnormals, infinities and NaN lie outside the values the codec meets   *)
(* and are not modelled.                                                   *)

Precision == 53

Float == [s : {0, 1}, m : Limbs, e : Int]

FZero == [s |-> 0, m |-> << >>, e |-> 0]

(* The float (-1)^s * r * 2^e for r of 53 bits, or of 54 bits after a      *)
(* round up carried into a new high bit (r is then 2^53).                  *)
Renormalise[s \in {0, 1}, r \in Limbs, e \in Int] ==
    IF BitLen[r] > Precision
    THEN [s |-> s, m |-> ShiftRight[r, 1], e |-> e + 1]
    ELSE [s |-> s, m |-> r, e |-> e]

(* Round to nearest, ties to even: kept is the 53 bits kept, guard the     *)
(* first bit dropped, rest whether anything below it is set.               *)
RoundKept[s \in {0, 1}, kept \in Limbs, e \in Int, guard \in {0, 1}, rest \in BOOLEAN] ==
    IF guard = 1 /\ (rest \/ Bit(kept, 0) = 1)
    THEN Renormalise[s, AddLimbs[kept, <<1>>, 0], e]
    ELSE [s |-> s, m |-> kept, e |-> e]

(* RoundFloat for b of n bits.                                             *)
RoundBits[s \in {0, 1}, b \in Limbs, e \in Int, sticky \in BOOLEAN, n \in Nat] ==
    IF n = 0 THEN FZero
    ELSE IF n <= Precision
    THEN [s |-> s, m |-> ShiftLeft[b, Precision - n], e |-> e - (Precision - n)]
    ELSE RoundKept[s, ShiftRight[b, n - Precision], e + (n - Precision),
                   Bit(b, n - Precision - 1),
                   sticky \/ LowBitsSet(b, n - Precision - 1)]

(* The float nearest to (-1)^s * (b + f) * 2^e, where 0 <= f < 1 and       *)
(* sticky says whether f > 0.                                              *)
RoundFloat[s \in {0, 1}, b \in Limbs, e \in Int, sticky \in BOOLEAN] ==
    RoundBits[s, b, e, sticky, BitLen[b]]

(* The float nearest to (-1)^s * (d.q + d.r/divisor) * 2^e.                *)
RoundQuotient[s \in {0, 1}, d \in QuotRem, e \in Int] ==
    RoundFloat[s, d.q, e, d.r # 0]

(* The float a decimal literal p/q (p >= 0, 0 < q < 2^15) parses to.       *)
FloatOf[p \in Nat, q \in Nat] ==
    RoundQuotient[0,
                  DivSmall[ShiftLeft[NatToLimbs[p], Precision + 2 + BitLenSmall[q]], q],
                  -(Precision + 2 + BitLenSmall[q])]

(* -a.                                                                     *)
FNeg[a \in Float] == IF a.m = << >> THEN a ELSE [a EXCEPT !.s = 1 - a.s]

(* a / d for a float a and a small positive integer d (exactly a float).   *)
FDivInt[a \in Float, d \in Nat] ==
    RoundQuotient[a.s,
                  DivSmall[ShiftLeft[a.m, 2 + BitLenSmall[d]], d],
                  a.e - (2 + BitLenSmall[d])]

(* a * c for a float a and a small positive integer c (exactly a float).   *)
FMulInt[a \in Float, c \in Nat] == RoundFloat[a.s, MulSmall[a.m, c, 0], a.e, FALSE]

(* (-1)^sa * x * 2^lo + (-1)^sb * y * 2^lo for x, y > 0, c being           *)
(* CmpLimbs[x, y].                                                         *)
AddAligned[sa \in {0, 1}, x \in Limbs, sb \in {0, 1}, y \in Limbs, lo \in Int, c \in Int] ==
    IF sa = sb THEN RoundFloat[sa, AddLimbs[x, y, 0], lo, FALSE]
    ELSE IF c = 0 THEN FZero
    ELSE IF c > 0 THEN RoundFloat[sa, SubLimbs[x, y, 0], lo, FALSE]
    ELSE RoundFloat[sb, SubLimbs[y, x, 0], lo, FALSE]

(* a + b.                                                                  *)
FAdd[a \in Float, b \in Float] ==
    IF a.m = << >> THEN b
    ELSE IF b.m = << >> THEN a
    ELSE IF a.e < b.e
    THEN AddAligned[a.s, a.m, b.s, ShiftLeft[b.m, b.e - a.e], a.e,
                    CmpLimbs[a.m, ShiftLeft[b.m, b.e - a.e]]]
    ELSE AddAligned[a.s, ShiftLeft[a.m, a.e - b.e], b.s, b.m, b.e,
                    CmpLimbs[ShiftLeft[a.m, a.e - b.e], b.m]]

FHalf == FloatOf[1, 2]

(* math.floor of a float whose integer part is small.                      *)
FFloor[a \in Float] ==
    IF a.m = << >> THEN 0
    ELSE IF a.e >= 0
    THEN (IF a.s = 0 THEN 1 ELSE -1) * LimbsToNat[ShiftLeft[a.m, a.e]]
    ELSE IF a.s = 0 THEN LimbsToNat[ShiftRight[a.m, -a.e]]
    ELSE -(LimbsToNat[ShiftRight[a.m, -a.e]]
             + (IF LowBitsSet(a.m, -a.e) THEN 1 ELSE 0))

-----------------------------------------------------------------------------
(* Python ints.  A key exceeds 32 bits, so an int n is held as [hi, lo]    *)
(* with n = hi * IntSplit + lo and 0 <= lo < IntSplit.                     *)

IntSplit == 1000000

IntZero == [hi |-> 0, lo |-> 0]

(* PackKey with the x term scaled by 100000 only.                          *)
PackKey_narrow(a, b) ==
    [hi |-> (a * 100000 + b * 100) \div IntSplit,
     lo |-> (a * 100000 + b * 100) % IntSplit]

(* PackKey with x and y taken for each other: b * 1000000 + a * 100.       *)
PackKey_swapped(a, b) ==
    [hi |-> b + ((a * 100) \div IntSplit), lo |-> (a * 100) % IntSplit]

(* PackKey with the x term scaled by 10000000.                             *)
PackKey_wide(a, b) ==
    [hi |-> a * 10 + ((b * 100) \div IntSplit), lo |-> (b * 100) % IntSplit]

(* a * 1000000 + b * 100 for small ints a and b.                           *)
PackKey(a, b) ==
    [hi |-> a + ((b * 100) \div IntSplit), lo |-> (b * 100) % IntSplit]

(* n + 1.                                                                  *)
IntSucc(n) ==
    IF n.lo + 1 = IntSplit THEN [hi |-> n.hi + 1, lo |-> 0]
    ELSE [hi |-> n.hi, lo |-> n.lo + 1]

(* n + k for a small k >= 0.                                               *)
IntPlus(n, k) ==
    [hi |-> n.hi + ((n.lo + k) \div IntSplit), lo |-> (n.lo + k) % IntSplit]

IntLess(a, b) == a.hi < b.hi \/ (a.hi = b.hi /\ a.lo < b.lo)

(* Decimal digits of a small natural, most significant first ("0" for 0).  *)
RECURSIVE Digits(_)
Digits(n) ==
    IF n < 10 THEN <<n>> ELSE Digits(n \div 10) \o <<n % 10>>

(* str(n): a sign and the decimal digits of |n|.                           *)
StrInt(n) ==
    LET neg  == n.hi < 0
        ahi  == IF neg THEN (IF n.lo = 0 THEN -n.hi ELSE -n.hi - 1) ELSE n.hi
        alo  == IF neg /\ n.lo # 0 THEN IntSplit - n.lo ELSE n.lo
        low  == Digits(alo)
        pad  == [i \in 1..(6 - Len(low)) |-> 0]
    IN  [neg |-> neg,
         digits |-> IF ahi = 0 THEN low ELSE Digits(ahi) \o pad \o low]

(* int(s) of a string of decimal digits (a zone identifier is small).      *)
RECURSIVE ParseInt(_)
ParseInt(s) ==
    IF s = << >> THEN 0
    ELSE 10 * ParseInt(SubSeq(s, 1, Len(s) - 1)) + s[Len(s)]

-----------------------------------------------------------------------------
(* Inputs.                                                                 *)

(* Zone(name, id): the identifier is a string of decimal digits.           *)
Zone(name, id) == [name |-> name, id |-> id]

Z1 == Zone("Z1", <<5>>)
Z2 == Zone("Z2", <<3>>)
Hellfire == Zone("Hellfire Peninsula", <<1, 0, 0>>)

(* Positions (x, y): 0.0, 10.0 and 10.00390625 (= 2561/256, which lies in  *)
(* the grid cell of 10.0).                                                 *)
F0 == FloatOf[0, 1]
F10 == FloatOf[10, 1]
F10a == FloatOf[2561, 256]

Positions == { <<F0, F0>>, <<F10, F10>>, <<F10a, F10>> }

(* The scrape records (zone, code, x, y) add is called with.               *)
Records ==
    ({Z1} \X {"A", "B"} \X Positions)
        \cup {<<Hellfire, "A", <<F10, F10>>>>, <<Z2, "C", <<F0, F0>>>>}

Types == {"Herb", "Mine", "Fish"}

(* The number of add calls one run of the model makes.                     *)
MaxAdds == 3

(* The floats the codec is applied to on its own: 0.0, 0.01, 7.125, 10.0,  *)
(* 50.0, 99.99 and 100.0.                                                  *)
CodecFloats ==
    { F0, FloatOf[1, 100], FloatOf[57, 8], F10, FloatOf[50, 1],
      FloatOf[9999, 100], FloatOf[100, 1] }

(* The positions a run of adds at one position is made at: (10.0, 10.0)    *)
(* and (0.0, -0.01); a position outside [0, 100] is accepted as it is.     *)
FNegCent == FNeg[FloatOf[1, 100]]

BandPositions == { <<F10, F10>>, <<F0, FNegCent>> }

(* The number of add calls of such a run: one more than the 100 keys of a  *)
(* band.                                                                   *)
BandAdds == 101

(* The floats of the model.                                                *)
Floats ==
    {p[1] : p \in Positions \cup BandPositions}
        \cup {p[2] : p \in Positions \cup BandPositions}
        \cup CodecFloats

-----------------------------------------------------------------------------
(* Coordinate: x, y floats and the cached key coord, 0 while unset.        *)

Coordinate(x, y) == [x |-> x, y |-> y, coord |-> IntZero]

(* math.floor((v/100)*10000+0.5)                                           *)
Scale[v \in Float] == FFloor[FAdd[FMulInt[FDivInt[v, 100], 10000], FHalf]]

(* Scale, tabulated over the floats of the model.                          *)
Grid == [v \in Floats |-> Scale[v]]

(* The value as_gatherer_coord() returns for the coordinate c.             *)
as_gatherer_coord(c) ==
    IF c.coord = IntZero THEN PackKey(Grid[c.x], Grid[c.y]) ELSE c.coord

(* Cached storing the key that follows the one returned.                   *)
Cached_next(c) == [c EXCEPT !.coord = IntSucc(as_gatherer_coord(c))]

(* The coordinate c after a call of as_gatherer_coord(): the key is cached. *)
Cached(c) == [c EXCEPT !.coord = as_gatherer_coord(c)]

(* EntryLess with the comparison turned round.                             *)
EntryLess_desc(c, d) == IntLess(as_gatherer_coord(d), as_gatherer_coord(c))

(* GathererEntry.__lt__ on two coordinates.                                *)
EntryLess(c, d) == IntLess(as_gatherer_coord(c), as_gatherer_coord(d))

(* ZoneLess on the identifiers as strings: lexicographic order.            *)
ZoneLess_lex(g, h) ==
    LET s == g.zone.id
        t == h.zone.id
    IN  \/ \E i \in 1..Len(s) :
              /\ i <= Len(t)
              /\ s[i] < t[i]
              /\ \A j \in 1..(i - 1) : s[j] = t[j]
        \/ /\ Len(s) < Len(t)
           /\ \A j \in 1..Len(s) : s[j] = t[j]

(* GathererZone.__lt__ on two buckets.                                     *)
ZoneLess(g, h) == ParseInt(g.zone.id) < ParseInt(h.zone.id)
-----------------------------------------------------------------------------
(* State.                                                                  *)
(*   type    Aggregate.type                                                *)
(*   coords  the Coordinate objects; a Coordinate is referred to by its    *)
(*           index (its identity)                                          *)
(*   zones   Aggregate.zones: GathererZone records [zone, entries], an     *)
(*           entry being [coordinate (index in coords), entry_id]          *)
(*   output  the text of the last serialization, as its lines; << >>       *)
(*           before the first                                              *)
(*   calls   history: the add calls made so far, each with its zone, its   *)
(*           entry, whether the Aggregate was serialized between the       *)
(*           previous add call and this one, whether line 139 assigned a   *)
(*           key to its coordinate, and whether the call returned          *)
(*   printed history: whether the Aggregate has been serialized since the  *)
(*           last add call                                                 *)
(*   status  where the program is: "scraping" (WowheadObject.__init__ is   *)
(*           running), "raised" (an exception left it), "scraped" (the     *)
(*           object is built), "ready" (the Aggregate is built) or "hung"  *)
(*           (an add call is looping for ever)                             *)
(* and, of WowheadObject.__init__:                                         *)
(*   pages       the pages of self.ids, in order: what requests.get gives  *)
(*   fetched     the number of ids the outer for loop has taken            *)
(*   title       the local title: the title of the last page fetched       *)
(*   todo        the zones of data_parsed the for loop has not reached yet *)
(*   coordinates self.coordinates: the zones in insertion order, each with *)
(*               its list of positions                                     *)
(*   log         the lines printed                                         *)
(* and, of add calls whose steps are interleaved:                          *)
(*   work        for each caller, where its add call is (pc), the zone and *)
(*               the entry of the call, the index i of the bucket the for  *)
(*               loop is at, and whether line 139 was executed             *)
(*   overlapped  history: whether an add call has entered the while loop   *)
(*               for a bucket while another call was between its own while *)
(*               loop and its append for that bucket                       *)

VARIABLES type, coords, zones, output, calls, printed, status,
          pages, fetched, title, todo, coordinates, log,
          work, overlapped

aggVars == <<type, coords, zones, output, calls, printed, status>>

scrapeVars == <<pages, fetched, title, todo, coordinates, log>>

raceVars == <<work, overlapped>>

vars == <<aggVars, scrapeVars, raceVars>>

(* No WowheadObject is being built.                                        *)
NoScrape ==
    /\ pages = << >>
    /\ fetched = 0
    /\ title = ""
    /\ todo = << >>
    /\ coordinates = << >>
    /\ log = << >>

(* No add call is under way.                                               *)
NoRace ==
    /\ work = << >>
    /\ overlapped = FALSE

GathererEntry(coordinate, entry_id) ==
    [coordinate |-> coordinate, entry_id |-> entry_id]

(* GathererZone losing the entries it is built with.                       *)
GathererZone_empty(zone, entries) == [zone |-> zone, entries |-> << >>]

GathererZone(zone, entries) == [zone |-> zone, entries |-> entries]

(* Aggregate.__init__ up to the first add: no bucket yet.                  *)
Init ==
    /\ type \in Types
    /\ coords = << >>
    /\ zones = << >>
    /\ output = << >>
    /\ calls = << >>
    /\ printed = FALSE
    /\ status = "ready"
    /\ NoScrape
    /\ NoRace

(* entry.coordinate in [x.coordinate for x in gatherer_zone.entries], for  *)
(* the coordinate object a with value c: a list member matches when it is  *)
(* the same object or an equal one (x, y and coord all equal).             *)
CoordinateIn(a, c, entries, heap) ==
    \E k \in 1..Len(entries) :
        \/ entries[k].coordinate = a
        \/ heap[entries[k].coordinate] = c

(* Probe with an if in place of the while: one bump at most.               *)
Probe_once(a, c, entries, heap) ==
    IF CoordinateIn(a, c, entries, heap)
    THEN [c EXCEPT !.coord = IntSucc(as_gatherer_coord(c))]
    ELSE c

(* The values of the objects of the program.                               *)
IntValue == [hi : Int, lo : Int]

CoordinateValue == [x : Float, y : Float, coord : IntValue]

ZoneValue == [name : STRING, id : Seq(Nat)]

EntryValue == [coordinate : Nat, entry_id : STRING]

BucketValue == [zone : ZoneValue, entries : Seq(EntryValue)]

CallValue ==
    [zone : ZoneValue, entry : EntryValue,
     emitted : BOOLEAN, bumped : BOOLEAN, returned : BOOLEAN]

(* The values of self.coordinates.                                         *)
CoordinatesValue == Seq([zone : ZoneValue, coords : Seq(Float \X Float)])

(* What an add call gives: the coordinates and the buckets after it, its   *)
(* entry, whether line 139 was executed and whether the call returned.     *)
AddValue ==
    [coords : Seq(CoordinateValue), zones : Seq(BucketValue), entry : EntryValue,
     bumped : BOOLEAN, returned : BOOLEAN]

(* The coordinates, the buckets and the add calls of an Aggregate under    *)
(* construction, and whether every call has returned.                      *)
RunValue ==
    [coords : Seq(CoordinateValue), zones : Seq(BucketValue),
     calls : Seq(CallValue), returned : BOOLEAN]

(* Line 139: entry.coordinate.coord = entry.coordinate.as_gatherer_coord() + 1 *)
Bump[c \in CoordinateValue] == [c EXCEPT !.coord = IntSucc(as_gatherer_coord(c))]

(* The loop at a coordinate value c, having been at the keys seen.         *)
ProbeState == [c : CoordinateValue, seen : SUBSET IntValue]

(* The while loop of add: the value of the entry's coordinate when the     *)
(* loop is left.  The loop is never left when the coordinate object itself *)
(* is in the list, or when it comes back to a coord value it has had (the  *)
(* list does not change and the next value depends on the present one      *)
(* only); the value is then the one at which that is known, and it is      *)
(* still in the list.                                                      *)
Probe(a, c, entries, heap) ==
    LET run[s \in ProbeState] ==
            IF ~CoordinateIn(a, s.c, entries, heap) \/ s.c.coord \in s.seen
            THEN s.c
            ELSE run[[c |-> Bump[s.c], seen |-> s.seen \cup {s.c.coord}]]
    IN  IF \E k \in 1..Len(entries) : entries[k].coordinate = a
        THEN c
        ELSE run[[c |-> c, seen |-> {}]]

(* FindZone finding no bucket ever.                                        *)
FindZone_none(zs, zone) == 0

(* FindZone stopping at the first bucket, whatever its zone.               *)
FindZone_first(zs, zone) == IF zs = << >> THEN 0 ELSE 1

(* FindZone stopping at the last bucket, whatever its zone.                *)
FindZone_last(zs, zone) == Len(zs)

(* The bucket the for loop of add stops at: the first one whose zone       *)
(* equals zone, 0 when there is none.                                      *)
FindZone(zs, zone) ==
    LET hit == {i \in 1..Len(zs) : zs[i].zone = zone}
    IN  IF hit = {} THEN 0 ELSE CHOOSE i \in hit : \A j \in hit : i <= j

(* Lines 138 to 141 for the bucket i and the entry, c being the value of   *)
(* the entry's coordinate the while loop ends with: the entry is appended, *)
(* unless the loop is never left.                                          *)
Appended[heap \in Seq(CoordinateValue), zs \in Seq(BucketValue), i \in Nat, entry \in EntryValue, c \in CoordinateValue] ==
    [coords   |-> [heap EXCEPT ![entry.coordinate] = c],
     zones    |-> IF CoordinateIn(entry.coordinate, c, zs[i].entries, heap)
                  THEN zs
                  ELSE [zs EXCEPT ![i].entries = Append(@, entry)],
     entry    |-> entry,
     bumped   |-> CoordinateIn(entry.coordinate, heap[entry.coordinate], zs[i].entries, heap),
     returned |-> ~CoordinateIn(entry.coordinate, c, zs[i].entries, heap)]

(* Aggregate.add(zone, GathererEntry(Coordinate(x, y), code)) on the       *)
(* coordinates heap0 and the buckets zs.                                   *)
add(heap0, zs, zone, x, y, code) ==
    LET a     == Len(heap0) + 1
        heap  == Append(heap0, Coordinate(x, y))
        entry == GathererEntry(a, code)
        i     == FindZone(zs, zone)
    IN  IF i = 0
        THEN [coords |-> heap,
              zones |-> Append(zs, GathererZone(zone, <<entry>>)),
              entry |-> entry, bumped |-> FALSE, returned |-> TRUE]
        ELSE Appended[heap, zs, i, entry, Probe(a, heap[a], zs[i].entries, heap)]

(* An add call, as long as fewer than limit calls were made.               *)
AddWithin(limit, zone, x, y, code) ==
    /\ status = "ready"
    /\ Len(calls) < limit
    /\ \E r \in {add(coords, zones, zone, x, y, code)} :
          /\ coords' = r.coords
          /\ zones' = r.zones
          /\ calls' = Append(calls, [zone |-> zone, entry |-> r.entry, emitted |-> printed,
                                     bumped |-> r.bumped, returned |-> r.returned])
          /\ status' = IF r.returned THEN "ready" ELSE "hung"
    /\ printed' = FALSE
    /\ UNCHANGED <<type, output>>
    /\ UNCHANGED scrapeVars
    /\ UNCHANGED raceVars

(* An add call of a run of MaxAdds calls.                                  *)
Add(zone, x, y, code) == AddWithin(MaxAdds, zone, x, y, code)
-----------------------------------------------------------------------------
(* Emission.  The text is kept as the sequence of its lines; a number in   *)
(* the text is kept as its decimal digits.                                 *)

NoDigits == [neg |-> FALSE, digits |-> << >>]

Line(kind, label, id, key, code) ==
    [kind |-> kind, label |-> label, id |-> id, key |-> key, code |-> code]

(* sorted(s), where lt[i][j] is the result of s[i].__lt__(s[j]):           *)
(* ascending, and stable (items of which neither is less than the other    *)
(* keep their order).                                                      *)
Sorted(s, lt) ==
    LET n       == Len(s)
        rank(i) == Cardinality({j \in 1..n : \/ lt[j][i]
                                             \/ j < i /\ ~lt[i][j]}) + 1
    IN  [k \in 1..n |-> s[CHOOSE i \in 1..n : rank(i) = k]]

RECURSIVE Concat(_)
Concat(ss) ==
    IF ss = << >> THEN << >> ELSE Head(ss) \o Concat(Tail(ss))

(* GathererEntry.__repr__: "\t\t[{coordinate}] = {entry_id},"              *)
EntryRepr(e, heap) ==
    Line("entry", "", << >>, StrInt(as_gatherer_coord(heap[e.coordinate])), e.entry_id)

(* The results of the __lt__ calls of sorted(z.entries): lt[i][j] is       *)
(* z.entries[i] < z.entries[j].                                            *)
EntryOrder(z, heap) ==
    [i \in 1..Len(z.entries) |-> [j \in 1..Len(z.entries) |->
        EntryLess(heap[z.entries[i].coordinate], heap[z.entries[j].coordinate])]]

(* ZoneRepr stopping after the first entry.                                *)
ZoneRepr_first(z, heap) ==
    <<Line("zone", "", z.zone.id, NoDigits, "")>>
    \o [k \in 1..(IF z.entries = << >> THEN 0 ELSE 1) |->
           EntryRepr(Sorted(z.entries, EntryOrder(z, heap))[k], heap)]
    \o <<Line("endzone", "", << >>, NoDigits, "")>>

(* GathererZone.__repr__: the zone line, the entries sorted, "\t},"        *)
ZoneRepr(z, heap) ==
    <<Line("zone", "", z.zone.id, NoDigits, "")>>
    \o [k \in 1..Len(z.entries) |->
           EntryRepr(Sorted(z.entries, EntryOrder(z, heap))[k], heap)]
    \o <<Line("endzone", "", << >>, NoDigits, "")>>

(* The results of the __lt__ calls of sorted(zs).                          *)
ZoneOrder(zs) ==
    [i \in 1..Len(zs) |-> [j \in 1..Len(zs) |-> ZoneLess(zs[i], zs[j])]]

(* Aggregate.__repr__: "GatherMate2{type}DB = {", the zones sorted, "}"    *)
AggregateRepr(t, zs, heap) ==
    <<Line("table", t, << >>, NoDigits, "")>>
    \o Concat([k \in 1..Len(zs) |-> ZoneRepr(Sorted(zs, ZoneOrder(zs))[k], heap)])
    \o <<Line("end", "", << >>, NoDigits, "")>>

(* The coordinates held by the entries of the buckets zs.                  *)
Held(zs) ==
    UNION { {zs[i].entries[k].coordinate : k \in 1..Len(zs[i].entries)} :
            i \in 1..Len(zs) }

(* str(aggregate), as print(Aggregate(...)) calls it: the text is built,   *)
(* and every as_gatherer_coord() call made on the way (by the comparisons  *)
(* of sorted and by the formatting of each entry) caches its key.          *)
Repr ==
    /\ status = "ready"
    /\ output' = AggregateRepr(type, zones, coords)
    /\ coords' = [a \in 1..Len(coords) |->
                    IF a \in Held(zones) THEN Cached(coords[a]) ELSE coords[a]]
    /\ printed' = TRUE
    /\ UNCHANGED <<type, zones, calls, status>>
    /\ UNCHANGED scrapeVars
    /\ UNCHANGED raceVars

Next ==
    \/ \E r \in Records : Add(r[1], r[3][1], r[3][2], r[2])
    \/ Repr

Spec == Init /\ [][Next]_vars

-----------------------------------------------------------------------------
(* The codec on its own: two Coordinate objects built from any two         *)
(* positions, and as_gatherer_coord() called on either.                    *)

InitCodec ==
    /\ type = "Herb"
    /\ coords \in [1..2 -> {Coordinate(x, y) : x \in CodecFloats, y \in CodecFloats}]
    /\ zones = << >>
    /\ output = << >>
    /\ calls = << >>
    /\ printed = FALSE
    /\ status = "ready"
    /\ NoScrape
    /\ NoRace

(* coords[a].as_gatherer_coord()                                           *)
Encode(a) ==
    /\ coords' = [coords EXCEPT ![a] = Cached(@)]
    /\ UNCHANGED <<type, zones, output, calls, printed, status>>
    /\ UNCHANGED scrapeVars
    /\ UNCHANGED raceVars

NextCodec == \E a \in 1..Len(coords) : Encode(a)

SpecCodec == InitCodec /\ [][NextCodec]_vars

-----------------------------------------------------------------------------
(* A run of add calls at one position of the zone Z1: the first call takes *)
(* its position from BandPositions, the later ones repeat it.              *)

InitBand ==
    /\ Init
    /\ type = "Herb"

AddBand ==
    \E p \in BandPositions :
        /\ IF coords = << >> THEN TRUE ELSE <<coords[1].x, coords[1].y>> = p
        /\ AddWithin(BandAdds, Z1, p[1], p[2], "A")

NextBand == AddBand

SpecBand == InitBand /\ [][NextBand]_vars

-----------------------------------------------------------------------------
(* WowheadObject(name, ids, gathermate_id) and Aggregate(type, [object]).  *)
(* A page is what the regular expressions of __init__ find in it:          *)
(*   title  the og:title                                                   *)
(*   blob   whether g_mapperData is there                                  *)
(*   zones  the zones of g_mapperData in order, each with                  *)
(*            zone    the external zone id                                 *)
(*            named   whether zonemap has the id, and name, its name there *)
(*            listed  whether data_parsed[zone][0]["coords"] is there, and *)
(*                    coords, its positions                                *)

ObjectName == "Golden Lotus"

GathermateId == "462"

(* The two entries of WOWHEAD_ZONE_MAP the pages refer to.                 *)
WOWHEAD_ZONE_MAP ==
    [z \in {"14", "1519"} |->
        IF z = "14" THEN Zone("Durotar", <<1>>) ELSE Zone("Stormwind City", <<8, 4>>)]

(* ZONE_SUPPRESSION without its entries.                                   *)
WOWHEAD_ZONE_SUPPRESSION_none == {}

(* The entry of WOWHEAD_ZONE_SUPPRESSION the pages refer to.               *)
WOWHEAD_ZONE_SUPPRESSION == {"718"}

ZoneRecord(zone, named, name, listed, cs) ==
    [zone |-> zone, named |-> named, name |-> name, listed |-> listed, coords |-> cs]

(* The zones a page can have: the mapped "14" with a name that agrees, one *)
(* that differs or none, and with or without a coordinate list; the mapped *)
(* "1519"; the unmapped "718" (suppressed) and "9999" (not suppressed),    *)
(* these at the position (0.0, 0.0), which no mapped zone has.             *)
ZoneRecords ==
    { ZoneRecord("14", n[1], n[2], l[1], l[2]) :
        n \in {<<TRUE, "Durotar">>, <<TRUE, "Durotar (old)">>, <<FALSE, "">>},
        l \in {<<TRUE, <<<<F10, F10>>>>>>, <<FALSE, << >>>>} }
    \cup { ZoneRecord("1519", TRUE, "Stormwind City", l[1], l[2]) :
             l \in {<<TRUE, <<<<F10, F10>>>>>>, <<FALSE, << >>>>} }
    \cup { ZoneRecord(z, FALSE, "", TRUE, <<<<F0, F0>>>>) : z \in {"718", "9999"} }

(* data_parsed: a JSON object has each zone id once.                       *)
ZoneLists ==
    { zl \in UNION {[1..n -> ZoneRecords] : n \in 0..4} :
        \A i \in 1..Len(zl) : \A j \in 1..Len(zl) :
            i # j => zl[i].zone # zl[j].zone }

Page(id, t, blob, zl) == [id |-> id, title |-> t, blob |-> blob, zones |-> zl]

(* The page of the first id: any title, any blob.                          *)
FirstPages ==
    { Page("209354", t, TRUE, zl) :
        t \in {ObjectName, "Golden Lotus (old)"}, zl \in ZoneLists }
    \cup { Page("209354", t, FALSE, << >>) : t \in {ObjectName, "Golden Lotus (old)"} }

(* The page of the second id: no blob, or the zone "14" once more, with a   *)
(* position of its own or without a coordinate list.                       *)
SecondPages ==
    { Page("221545", ObjectName, FALSE, << >>),
      Page("221545", ObjectName, TRUE,
           <<ZoneRecord("14", TRUE, "Durotar", TRUE, <<<<F10a, F10>>>>)>>),
      Page("221545", ObjectName, TRUE,
           <<ZoneRecord("14", TRUE, "Durotar", FALSE, << >>)>>) }

(* self.ids has no, one or two ids.                                        *)
PageLists ==
    {<< >>} \cup {<<p>> : p \in FirstPages}
            \cup {<<p, q>> : p \in FirstPages, q \in SecondPages}

LogLine(kind, subject, text) == [kind |-> kind, subject |-> subject, text |-> text]

(* WowheadObject.__init__ before its first id, and an Aggregate to come.   *)
InitScrape ==
    /\ type = "Herb"
    /\ coords = << >>
    /\ zones = << >>
    /\ output = << >>
    /\ calls = << >>
    /\ printed = FALSE
    /\ status = "scraping"
    /\ pages \in PageLists
    /\ fetched = 0
    /\ title = ""
    /\ todo = << >>
    /\ coordinates = << >>
    /\ log = << >>
    /\ NoRace

(* Lines 25 to 35: the next id is fetched; without g_mapperData            *)
(* data.group raises AttributeError, which is caught: the id is skipped.   *)
Fetch ==
    /\ status = "scraping"
    /\ todo = << >>
    /\ fetched < Len(pages)
    /\ fetched' = fetched + 1
    /\ title' = pages[fetched + 1].title
    /\ IF pages[fetched + 1].blob
       THEN /\ todo' = pages[fetched + 1].zones
            /\ log' = log
       ELSE /\ todo' = << >>
            /\ log' = Append(log, LogLine("No locations", pages[fetched + 1].id, ObjectName))
    /\ UNCHANGED <<pages, coordinates>>
    /\ UNCHANGED aggVars
    /\ UNCHANGED raceVars

(* File with the positions of a Zone replaced, not extended.               *)
File_overwrite(cd, w, cs) ==
    IF \E k \in 1..Len(cd) : cd[k].zone = w
    THEN [k \in 1..Len(cd) |->
            IF cd[k].zone = w THEN [cd[k] EXCEPT !.coords = cs] ELSE cd[k]]
    ELSE Append(cd, [zone |-> w, coords |-> cs])

(* Lines 50 to 53: self.coordinates with cs filed under the Zone w.        *)
File(cd, w, cs) ==
    IF \E k \in 1..Len(cd) : cd[k].zone = w
    THEN [k \in 1..Len(cd) |->
            IF cd[k].zone = w THEN [cd[k] EXCEPT !.coords = @ \o cs] ELSE cd[k]]
    ELSE Append(cd, [zone |-> w, coords |-> cs])

(* Lines 36 to 53: one round of the loop over data_parsed.                 *)
ScrapeZone ==
    /\ status = "scraping"
    /\ todo # << >>
    /\ IF Head(todo).zone \notin DOMAIN WOWHEAD_ZONE_MAP
       THEN /\ log' = IF Head(todo).zone \notin WOWHEAD_ZONE_SUPPRESSION
                      THEN Append(log, LogLine("Found unlisted zone", Head(todo).zone, ""))
                      ELSE log
            /\ todo' = Tail(todo)
            /\ UNCHANGED <<status, coordinates>>
       ELSE IF ~Head(todo).named
       THEN (* zonemap[zone] raises KeyError, which nothing catches *)
            /\ status' = "raised"
            /\ UNCHANGED <<todo, coordinates, log>>
       ELSE /\ log' = IF WOWHEAD_ZONE_MAP[Head(todo).zone].name # Head(todo).name
                      THEN Append(log, LogLine("Zone name mismatch", Head(todo).zone,
                                               Head(todo).name))
                      ELSE log
            /\ coordinates' = IF Head(todo).listed
                              THEN File(coordinates, WOWHEAD_ZONE_MAP[Head(todo).zone],
                                        Head(todo).coords)
                              ELSE coordinates
            /\ todo' = Tail(todo)
            /\ UNCHANGED status
    /\ UNCHANGED <<pages, fetched, title, type, coords, zones, output, calls, printed>>
    /\ UNCHANGED raceVars

(* Lines 54 to 57: after the last id; title is unbound when there was no   *)
(* id, and reading it raises UnboundLocalError.                            *)
Finish ==
    /\ status = "scraping"
    /\ todo = << >>
    /\ fetched = Len(pages)
    /\ IF fetched = 0
       THEN /\ status' = "raised"
            /\ log' = log
       ELSE /\ status' = "scraped"
            /\ log' = Append(log, LogLine(IF ObjectName # title
                                          THEN "Finished processing, but name mismatched"
                                          ELSE "Finished processing", ObjectName, title))
    /\ UNCHANGED <<pages, fetched, title, todo, coordinates>>
    /\ UNCHANGED <<type, coords, zones, output, calls, printed>>
    /\ UNCHANGED raceVars

(* The Aggregate under construction after the add call that gave r.        *)
Called[run \in RunValue, w \in ZoneValue, r \in AddValue] ==
    [coords   |-> r.coords,
     zones    |-> r.zones,
     calls    |-> Append(run.calls, [zone |-> w, entry |-> r.entry, emitted |-> FALSE,
                                     bumped |-> r.bumped, returned |-> r.returned]),
     returned |-> r.returned]

(* Lines 123 to 126: the add calls for the positions from the j-th on of   *)
(* the k-th zone of cd, and for the zones after it; a call that does not   *)
(* return is the last.                                                     *)
AddAll[run \in RunValue, cd \in CoordinatesValue, k \in Nat, j \in Nat] ==
    IF k > Len(cd) \/ ~run.returned THEN run
    ELSE IF j > Len(cd[k].coords) THEN AddAll[run, cd, k + 1, 1]
    ELSE AddAll[Called[run, cd[k].zone,
                       add(run.coords, run.zones, cd[k].zone,
                           cd[k].coords[j][1], cd[k].coords[j][2], GathermateId)],
                cd, k, j + 1]

(* Aggregate(type, [object]), lines 120 to 126.                            *)
Construct ==
    /\ status = "scraped"
    /\ \E run \in {AddAll[[coords |-> << >>, zones |-> << >>, calls |-> << >>,
                            returned |-> TRUE], coordinates, 1, 1]} :
          /\ coords' = run.coords
          /\ zones' = run.zones
          /\ calls' = run.calls
          /\ status' = IF run.returned THEN "ready" ELSE "hung"
    /\ printed' = FALSE
    /\ UNCHANGED <<type, output>>
    /\ UNCHANGED scrapeVars
    /\ UNCHANGED raceVars

NextScrape == Fetch \/ ScrapeZone \/ Finish \/ Construct

SpecScrape == InitScrape /\ [][NextScrape]_vars

-----------------------------------------------------------------------------
(* Aggregate.add called by two callers whose calls are interleaved         *)
(* statement by statement: the for loop over self.zones (one bucket a      *)
(* step), the while loop (one test, and its bump, a step), the append.     *)

RaceWorkers == {1, 2}

(* The add calls started, at most.                                         *)
RaceAdds == 3

(* The records (zone, code, x, y) the callers call add with.               *)
RaceRecords ==
    { <<Z1, "A", <<F10, F10>>>>, <<Z1, "A", <<F10a, F10>>>>, <<Z2, "C", <<F10, F10>>>> }

(* A caller between two add calls.                                         *)
Idle == [pc |-> "idle", zone |-> Z1, entry |-> GathererEntry(0, ""), i |-> 0,
         bumped |-> FALSE]

(* An Aggregate with no bucket yet, and both callers about to call add.    *)
InitRace ==
    /\ type = "Herb"
    /\ coords = << >>
    /\ zones = << >>
    /\ output = << >>
    /\ calls = << >>
    /\ printed = FALSE
    /\ status = "ready"
    /\ NoScrape
    /\ work = [w \in RaceWorkers |-> Idle]
    /\ overlapped = FALSE

(* The history entry of the add call of the caller w, on its return.       *)
Returned(w) ==
    [zone |-> work[w].zone, entry |-> work[w].entry, emitted |-> FALSE,
     bumped |-> work[w].bumped, returned |-> TRUE]

(* self.add(zone, GathererEntry(Coordinate(x, y), code)): the entry is     *)
(* built and add is entered.                                               *)
RaceCall(w) ==
    /\ work[w].pc = "idle"
    /\ Len(coords) < RaceAdds
    /\ \E r \in RaceRecords :
          /\ coords' = Append(coords, Coordinate(r[3][1], r[3][2]))
          /\ work' = [work EXCEPT ![w] =
                         [pc |-> "scan", zone |-> r[1],
                          entry |-> GathererEntry(Len(coords) + 1, r[2]),
                          i |-> 1, bumped |-> FALSE]]
    /\ UNCHANGED <<type, zones, output, calls, printed, status, overlapped>>
    /\ UNCHANGED scrapeVars

(* Lines 136 and 137: the for loop takes the next bucket of self.zones, if *)
(* there is one, and compares its zone.                                    *)
RaceScan(w) ==
    /\ work[w].pc = "scan"
    /\ IF work[w].i > Len(zones)
       THEN /\ work' = [work EXCEPT ![w].pc = "new"]
            /\ UNCHANGED overlapped
       ELSE IF zones[work[w].i].zone = work[w].zone
       THEN /\ work' = [work EXCEPT ![w].pc = "probe"]
            /\ overlapped' =
                   (overlapped \/ \E v \in RaceWorkers \ {w} :
                                     /\ work[v].pc \in {"probe", "append"}
                                     /\ work[v].i = work[w].i)
       ELSE /\ work' = [work EXCEPT ![w].i = @ + 1]
            /\ UNCHANGED overlapped
    /\ UNCHANGED aggVars
    /\ UNCHANGED scrapeVars

(* Line 142: self.zones.append(GathererZone(zone, [entry]))                *)
RaceNew(w) ==
    /\ work[w].pc = "new"
    /\ zones' = Append(zones, GathererZone(work[w].zone, <<work[w].entry>>))
    /\ calls' = Append(calls, Returned(w))
    /\ work' = [work EXCEPT ![w] = Idle]
    /\ UNCHANGED <<type, coords, output, printed, status, overlapped>>
    /\ UNCHANGED scrapeVars

(* Lines 138 and 139: the while test, and the bump when it is true.        *)
RaceProbe(w) ==
    /\ work[w].pc = "probe"
    /\ IF CoordinateIn(work[w].entry.coordinate, coords[work[w].entry.coordinate],
                       zones[work[w].i].entries, coords)
       THEN /\ coords' = [coords EXCEPT ![work[w].entry.coordinate] = Bump[@]]
            /\ work' = [work EXCEPT ![w].bumped = TRUE]
       ELSE /\ work' = [work EXCEPT ![w].pc = "append"]
            /\ UNCHANGED coords
    /\ UNCHANGED <<type, zones, output, calls, printed, status, overlapped>>
    /\ UNCHANGED scrapeVars

(* Lines 140 and 141: gatherer_zone.entries.append(entry); return          *)
RaceAppend(w) ==
    /\ work[w].pc = "append"
    /\ zones' = [zones EXCEPT ![work[w].i].entries = Append(@, work[w].entry)]
    /\ calls' = Append(calls, Returned(w))
    /\ work' = [work EXCEPT ![w] = Idle]
    /\ UNCHANGED <<type, coords, output, printed, status, overlapped>>
    /\ UNCHANGED scrapeVars

NextRace ==
    \E w \in RaceWorkers :
        RaceCall(w) \/ RaceScan(w) \/ RaceNew(w) \/ RaceProbe(w) \/ RaceAppend(w)

SpecRace == InitRace /\ [][NextRace]_vars

-----------------------------------------------------------------------------
(* Notions the properties are stated with.                                 *)

(* The key of the Coordinate object a: what as_gatherer_coord() returns.   *)
KeyOf(a) == as_gatherer_coord(coords[a])

(* encode(x, y) of the Coordinate object a: its key as computed from its   *)
(* position, whatever its coord field holds.                               *)
Nominal(a) == PackKey(Grid[coords[a].x], Grid[coords[a].y])

(* The keys of the entries of the bucket g, under the coordinates heap.    *)
KeysIn(g, heap) ==
    {as_gatherer_coord(heap[g.entries[k].coordinate]) : k \in 1..Len(g.entries)}

(* No add call was made after a serialization.                             *)
OnlyAdds == \A k \in 1..Len(calls) : ~calls[k].emitted

(* The smallest int k >= n that is not in keys.                            *)
RECURSIVE SmallestFree(_, _)
SmallestFree(n, keys) ==
    IF n \in keys THEN SmallestFree(IntSucc(n), keys) ELSE n

(* The add call k targets the zone and the position of the add call j.     *)
SameRecord(j, k) ==
    /\ calls[j].zone = calls[k].zone
    /\ coords[calls[j].entry.coordinate].x = coords[calls[k].entry.coordinate].x
    /\ coords[calls[j].entry.coordinate].y = coords[calls[k].entry.coordinate].y

(* The add call j targets the zone and the grid cell of the add call k.    *)
SameCell(j, k) ==
    /\ calls[j].zone = calls[k].zone
    /\ Nominal(calls[j].entry.coordinate) = Nominal(calls[k].entry.coordinate)

-----------------------------------------------------------------------------
(* C1: after any sequence of add calls (no serialization before the last   *)
(* of them), no two entries of one Zone Bucket have the same key.          *)
C1_UniqueKeys ==
    OnlyAdds =>
        \A i \in 1..Len(zones) :
            \A k, l \in 1..Len(zones[i].entries) :
                k # l => KeyOf(zones[i].entries[k].coordinate)
                            # KeyOf(zones[i].entries[l].coordinate)

(* C2: an add call that targets an existing bucket leaves the added entry  *)
(* with the smallest key k >= encode(x, y) that no entry already in the    *)
(* bucket has.                                                             *)
C2_LinearProbing ==
    [][Len(calls') = Len(calls) + 1 =>
        LET c == calls'[Len(calls')]
            i == FindZone(zones, c.zone)
            a == c.entry.coordinate
        IN  i # 0 =>
                as_gatherer_coord(coords'[a])
                    = SmallestFree(PackKey(Grid[coords'[a].x], Grid[coords'[a].y]),
                                   KeysIn(zones[i], coords))]_vars

(* C3: when the add calls k..m are made with the same zone and position,   *)
(* with no serialization between them, and the bucket held no entry of     *)
(* that grid cell before, the entry of call i (k <= i <= m) has the key    *)
(* encode(x, y) + (i - k).                                                 *)
C3_SequentialBump ==
    \A k \in 1..Len(calls) : \A m \in k..Len(calls) :
        ( /\ \A i \in k..m : SameRecord(k, i)
          /\ \A i \in (k + 1)..m : ~calls[i].emitted
          /\ \A j \in 1..(k - 1) : ~SameCell(j, k) )
        => \A i \in k..m :
               KeyOf(calls[i].entry.coordinate)
                   = IntPlus(Nominal(calls[k].entry.coordinate), i - k)

(* Three add calls with one zone and one position have been made in a row. *)
C3_Witness ==
    /\ Len(calls) = 3
    /\ SameRecord(1, 2) /\ SameRecord(1, 3)
    /\ ~calls[2].emitted /\ ~calls[3].emitted
    /\ Nominal(calls[1].entry.coordinate) # IntZero
    /\ KeyOf(calls[3].entry.coordinate)
           = IntPlus(Nominal(calls[1].entry.coordinate), 2)
-----------------------------------------------------------------------------
(* The codec against exact arithmetic.                                     *)

(* floor(v * 100 + 1/2) in exact arithmetic, for a float v >= 0: v scaled  *)
(* to the grid and rounded half-up.                                        *)
HalfUp[v \in Float] ==
    IF v.m = << >> THEN 0
    ELSE IF v.e >= 0 THEN LimbsToNat[ShiftLeft[MulSmall[v.m, 100, 0], v.e]]
    ELSE LimbsToNat[ShiftRight[AddLimbs[Norm[MulSmall[v.m, 100, 0]],
                                        ShiftLeft[<<1>>, -v.e - 1], 0],
                               -v.e]]

(* The bands [j, j + 99] and [k, k + 99] have no int in common.            *)
BandsDisjoint(j, k) == IntLess(IntPlus(j, 99), k) \/ IntLess(IntPlus(k, 99), j)

(* C4: the key as_gatherer_coord() computes is gx * 1000000 + gy * 100     *)
(* with gx, gy the position scaled to the grid and rounded half-up.        *)
C4_RoundHalfUp ==
    \A a \in 1..Len(coords) :
        coords[a].coord # IntZero
            => coords[a].coord = PackKey(HalfUp[coords[a].x], HalfUp[coords[a].y])

(* C5 as claimed: two positions whose scaled x differ have disjoint bands, *)
(* for every y up to the boundary y = 100.                                 *)
C5_BandsDisjointAnyY ==
    \A a, b \in 1..Len(coords) :
        Grid[coords[a].x] # Grid[coords[b].x]
            => BandsDisjoint(KeyOf(a), KeyOf(b))

(* C5 amended: two positions whose scaled x differ have disjoint bands,    *)
(* except when the one with the smaller scaled x has y scaled to 10000     *)
(* and the other has a scaled x exactly one greater and y scaled to 0.     *)
C5_BandsDisjoint ==
    \A a, b \in 1..Len(coords) :
        ( /\ Grid[coords[a].x] < Grid[coords[b].x]
          /\ ~ ( /\ Grid[coords[a].y] = 10000
                 /\ Grid[coords[b].x] = Grid[coords[a].x] + 1
                 /\ Grid[coords[b].y] = 0 ) )
        => BandsDisjoint(KeyOf(a), KeyOf(b))

(* Both keys are computed, the scaled x differ by one, and the band of the *)
(* first position ends right below the key of the second.                  *)
C5_Witness ==
    /\ coords[1].coord # IntZero /\ coords[2].coord # IntZero
    /\ Grid[coords[2].x] = Grid[coords[1].x] + 1
    /\ Grid[coords[1].y] = 9999 /\ Grid[coords[2].y] = 0
    /\ IntSucc(IntPlus(coords[1].coord, 99)) = coords[2].coord

-----------------------------------------------------------------------------
(* The emitted text.                                                       *)

(* d < e for two decimal numbers as written in the text.                   *)
MagLess(d, e) ==
    \/ Len(d) < Len(e)
    \/ /\ Len(d) = Len(e)
       /\ \E i \in 1..Len(d) : d[i] < e[i] /\ \A j \in 1..(i - 1) : d[j] = e[j]

DecLess(a, b) ==
    IF a.neg # b.neg THEN a.neg
    ELSE IF a.neg THEN MagLess(b.digits, a.digits)
    ELSE MagLess(a.digits, b.digits)

IsZoneLine(l) == l.kind = "zone"

(* C6: in the text of an Aggregate built by add calls, the entry lines of  *)
(* each bucket are in strictly increasing order of their key.              *)
C6_EntriesAscending ==
    OnlyAdds =>
        \A i \in 1..(Len(output) - 1) :
            output[i].kind = "entry" /\ output[i + 1].kind = "entry"
                => DecLess(output[i].key, output[i + 1].key)

(* C7: in the text, the zone lines are in strictly increasing order of the *)
(* identifier taken as an integer.                                         *)
C7_ZonesAscending ==
    LET zl == SelectSeq(output, IsZoneLine)
    IN  \A i \in 1..(Len(zl) - 1) : ParseInt(zl[i].id) < ParseInt(zl[i + 1].id)

(* The text lists the zones 3, 5 and 100 in this order, of an Aggregate    *)
(* whose buckets were created in the order 100, 5, 3.                      *)
C7_Witness ==
    /\ printed
    /\ Len(zones) = 3
    /\ zones[1].zone = Hellfire /\ zones[2].zone = Z1 /\ zones[3].zone = Z2
    /\ LET zl == SelectSeq(output, IsZoneLine)
       IN  /\ Len(zl) = 3
           /\ zl[1].id = <<3>> /\ zl[2].id = <<5>> /\ zl[3].id = <<1, 0, 0>>

(* The records of the end-to-end scenario were added, in their order, and  *)
(* the Aggregate was then serialized.                                      *)
Scenario ==
    /\ printed
    /\ Len(calls) = 3
    /\ OnlyAdds
    /\ calls[1].zone = Z1 /\ calls[1].entry.entry_id = "A"
    /\ coords[calls[1].entry.coordinate].x = F10
    /\ coords[calls[1].entry.coordinate].y = F10
    /\ calls[2].zone = Z1 /\ calls[2].entry.entry_id = "B"
    /\ coords[calls[2].entry.coordinate].x = F10
    /\ coords[calls[2].entry.coordinate].y = F10
    /\ calls[3].zone = Z2 /\ calls[3].entry.entry_id = "C"
    /\ coords[calls[3].entry.coordinate].x = F0
    /\ coords[calls[3].entry.coordinate].y = F0

(* The text has the zone line 3 before the zone line 5 and, in the block   *)
(* of zone 5, the entry A with the key ka before the entry B with the key  *)
(* kb (keys as written in the text).                                       *)
ScenarioText(ka, kb) ==
    \E i, j, k, l \in 1..Len(output) :
        /\ i < j /\ j < k /\ k < l
        /\ output[i].kind = "zone" /\ output[i].id = <<3>>
        /\ output[j].kind = "zone" /\ output[j].id = <<5>>
        /\ \A n \in j..l : output[n].kind # "endzone"
        /\ output[k].kind = "entry" /\ output[k].code = "A"
        /\ output[k].key = [neg |-> FALSE, digits |-> ka]
        /\ output[l].kind = "entry" /\ output[l].code = "B"
        /\ output[l].key = [neg |-> FALSE, digits |-> kb]

(* C8 as claimed: the keys of A and B are 1000100010 and 1000100011.       *)
C8_ScenarioAsClaimed ==
    Scenario => ScenarioText(<<1, 0, 0, 0, 1, 0, 0, 0, 1, 0>>,
                             <<1, 0, 0, 0, 1, 0, 0, 0, 1, 1>>)

(* C8 amended: the scenario emits zone 3 before zone 5 and, within zone 5, *)
(* A at the key 1000100000 before B at the key 1000100001.                 *)
C8_Scenario ==
    Scenario => ScenarioText(<<1, 0, 0, 0, 1, 0, 0, 0, 0, 0>>,
                             <<1, 0, 0, 0, 1, 0, 0, 0, 0, 1>>)

C8_Witness == Scenario /\ Len(zones) = 2 /\ Len(output) = 9

-----------------------------------------------------------------------------
(* The buckets.                                                            *)

(* Where the entry of the add call k is held: the pairs (bucket, index).   *)
PlacesOf(k) ==
    {<<i, j>> \in (1..Len(zones)) \X (1..Len(calls)) :
        /\ j <= Len(zones[i].entries)
        /\ zones[i].entries[j].coordinate = calls[k].entry.coordinate}

RECURSIVE TotalEntries(_)
TotalEntries(zs) ==
    IF zs = << >> THEN 0 ELSE Len(Head(zs).entries) + TotalEntries(Tail(zs))

(* C9: the buckets hold as many entries as add calls were made, and the    *)
(* entry of each call is held once, in the bucket of the zone of the call, *)
(* with the identifier code of the call.                                   *)
C9_NoEntryLost ==
    /\ TotalEntries(zones) = Len(calls)
    /\ \A k \in 1..Len(calls) :
           /\ Cardinality(PlacesOf(k)) = 1
           /\ \A pl \in PlacesOf(k) :
                  /\ zones[pl[1]].zone = calls[k].zone
                  /\ zones[pl[1]].entries[pl[2]].entry_id = calls[k].entry.entry_id

(* Three add calls were made, two to one zone after one to another, with   *)
(* different codes.                                                        *)
C9_Witness ==
    /\ Len(calls) = 3
    /\ calls[1].zone # calls[2].zone /\ calls[2].zone = calls[3].zone
    /\ calls[2].entry.entry_id # calls[3].entry.entry_id
    /\ Len(zones) = 2 /\ Len(zones[2].entries) = 2

(* C10: no two buckets hold equal Zones.                                   *)
C10_OneBucketPerZone ==
    \A i, j \in 1..Len(zones) : i # j => zones[i].zone # zones[j].zone

(* Three add calls to one zone left one bucket.                            *)
C10_Witness ==
    /\ Len(calls) = 3
    /\ \A k \in 1..3 : calls[k].zone = calls[1].zone
    /\ Len(zones) = 1 /\ Len(zones[1].entries) = 3

-----------------------------------------------------------------------------
(* C11: in every reachable state a bucket exists for a zone if and only if *)
(* an add call targeted that zone, and every bucket holds at least one     *)
(* entry; before the first add call there is no bucket.                    *)
C11_BucketsIffAdded ==
    /\ {zones[i].zone : i \in 1..Len(zones)} = {calls[k].zone : k \in 1..Len(calls)}
    /\ \A i \in 1..Len(zones) : zones[i].entries # << >>
    /\ calls = << >> => zones = << >>

(* Three add calls were made, to two of the three zones.                   *)
C11_Witness ==
    /\ Len(calls) = MaxAdds
    /\ Len(zones) = 2
    /\ \E r \in Records : \A i \in 1..Len(zones) : zones[i].zone # r[1]

-----------------------------------------------------------------------------
(* The key of the coordinate a lies in the band of its position:           *)
(* nominal <= key <= nominal + 99.                                         *)
InOwnBand(a) ==
    /\ ~IntLess(KeyOf(a), Nominal(a))
    /\ ~IntLess(IntPlus(Nominal(a), 99), KeyOf(a))

(* C12: add never appends an entry whose key lies outside the band         *)
(* [nominal, nominal + 99] of its position, and never gives two entries of *)
(* a bucket the same key (the 101st record at one position is to halt the  *)
(* run instead).                                                           *)
C12_KeyWithinBand ==
    \A i \in 1..Len(zones) :
        \A j \in 1..Len(zones[i].entries) :
            /\ InOwnBand(zones[i].entries[j].coordinate)
            /\ \A k \in 1..Len(zones[i].entries) :
                   j # k => KeyOf(zones[i].entries[j].coordinate)
                              # KeyOf(zones[i].entries[k].coordinate)

-----------------------------------------------------------------------------
(* C13: right after a serialization (no add call since), serializing again *)
(* gives the text the serialization gave.                                  *)
C13_Idempotent == printed => output = AggregateRepr(type, zones, coords)

(* The Aggregate was serialized with an entry whose key add had bumped.    *)
C13_Witness ==
    /\ printed
    /\ \E k \in 1..Len(calls) : calls[k].bumped

-----------------------------------------------------------------------------
(* C14: a coordinate to which line 139 assigned a key v keeps it: a later  *)
(* as_gatherer_coord() call returns the stored v, whatever v is.           *)
C14_KeyFrozen ==
    \A k \in 1..Len(calls) :
        calls[k].bumped =>
            KeyOf(calls[k].entry.coordinate) = coords[calls[k].entry.coordinate].coord

-----------------------------------------------------------------------------
(* 10_001_000_000, the key of (100.0, 100.0).                              *)
TopKey == [hi |-> 10001, lo |-> 0]

(* 0 <= n < 2^63, for an int n the model holds: n.hi below 2147483647      *)
(* gives n < 2147483647 * 1000000 + 1000000 < 2^63.                        *)
NonNegative64(n) == ~IntLess(n, IntZero) /\ n.hi < 2147483647

(* C15: the key of a position with x and y in [0, 100] is a non-negative   *)
(* integer not above 10_001_000_000, and it stays non-negative and below   *)
(* 2^63 after up to 99 bumps.                                              *)
C15_KeyRange ==
    \A a \in 1..Len(coords) :
        /\ ~IntLess(KeyOf(a), IntZero)
        /\ ~IntLess(TopKey, KeyOf(a))
        /\ \A k \in 0..99 : NonNegative64(IntPlus(KeyOf(a), k))

(* The key of (100.0, 100.0) has been computed, and that of (0.0, 0.0).    *)
C15_Witness ==
    /\ coords[1].coord = TopKey
    /\ KeyOf(2) = IntZero

-----------------------------------------------------------------------------
(* The block of the text that starts at the zone line l is that of the     *)
(* bucket g: it is headed by the identifier of g's zone, and up to its     *)
(* closing line it has one line per entry of g, each pairing the key of an *)
(* entry with that entry's code, as many times as g has such entries.      *)
BlockOf(l, g) ==
    /\ output[l].id = g.zone.id
    /\ l + Len(g.entries) + 1 <= Len(output)
    /\ output[l + Len(g.entries) + 1].kind = "endzone"
    /\ \A n \in 1..Len(g.entries) :
           /\ output[l + n].kind = "entry"
           /\ Cardinality({m \in 1..Len(g.entries) :
                              /\ output[l + m].key = output[l + n].key
                              /\ output[l + m].code = output[l + n].code})
                = Cardinality({m \in 1..Len(g.entries) :
                                /\ StrInt(KeyOf(g.entries[m].coordinate)) = output[l + n].key
                                /\ g.entries[m].entry_id = output[l + n].code})

(* C16: the text of a serialization is the table line naming the type, one *)
(* block per bucket headed by the identifier of its zone and holding one   *)
(* line per entry of that bucket with the entry's key and code, and the    *)
(* closing line; nothing else.                                             *)
C16_EmissionFaithful ==
    printed =>
        /\ Len(output) = 2 + 2 * Len(zones) + TotalEntries(zones)
        /\ output[1] = Line("table", type, << >>, NoDigits, "")
        /\ output[Len(output)] = Line("end", "", << >>, NoDigits, "")
        /\ Cardinality({l \in 1..Len(output) : IsZoneLine(output[l])}) = Len(zones)
        /\ \A i \in 1..Len(zones) :
               \E l \in 1..Len(output) :
                   IsZoneLine(output[l]) /\ BlockOf(l, zones[i])

(* A serialization of two buckets, one with two entries of different codes. *)
C16_Witness ==
    /\ printed
    /\ Len(zones) = 2
    /\ \E i \in 1..Len(zones) :
           /\ Len(zones[i].entries) = 2
           /\ zones[i].entries[1].entry_id # zones[i].entries[2].entry_id

-----------------------------------------------------------------------------
(* The zones of the pages the loop over data_parsed has dealt with, in     *)
(* order: those of the pages fetched, less the ones still to do.           *)
Done ==
    Concat([i \in 1..fetched |->
              IF i < fetched THEN pages[i].zones
              ELSE SubSeq(pages[i].zones, 1, Len(pages[i].zones) - Len(todo))])

Mapped(z) == z.zone \in DOMAIN WOWHEAD_ZONE_MAP

(* The external zone ids of the zones of zs that are unmapped and not      *)
(* suppressed, in order: of the ids of the pages that is "9999" ("14" and  *)
(* "1519" are mapped, "718" is suppressed).                                *)
RECURSIVE Unlisted(_)
Unlisted(zs) ==
    IF zs = << >> THEN << >>
    ELSE (IF Head(zs).zone = "9999" THEN <<Head(zs).zone>> ELSE << >>)
         \o Unlisted(Tail(zs))

(* The subjects of the lines of the log of the given kind, in order.       *)
RECURSIVE Logged(_, _)
Logged(ls, kind) ==
    IF ls = << >> THEN << >>
    ELSE (IF Head(ls).kind = kind THEN <<Head(ls).subject>> ELSE << >>)
         \o Logged(Tail(ls), kind)

(* The number of positions the zones of zs list for the Zone w.            *)
RECURSIVE ListedFor(_, _)
ListedFor(zs, w) ==
    IF zs = << >> THEN 0
    ELSE (IF Mapped(Head(zs)) /\ WOWHEAD_ZONE_MAP[Head(zs).zone] = w /\ Head(zs).listed
          THEN Len(Head(zs).coords) ELSE 0) + ListedFor(Tail(zs), w)

(* The number of positions self.coordinates holds for the Zone w.          *)
FiledUnder(w) ==
    IF \E k \in 1..Len(coordinates) : coordinates[k].zone = w
    THEN Len(coordinates[CHOOSE k \in 1..Len(coordinates) : coordinates[k].zone = w].coords)
    ELSE 0

ConfiguredZones == {WOWHEAD_ZONE_MAP[z] : z \in DOMAIN WOWHEAD_ZONE_MAP}

(* C17: a zone of a page whose id is not in WOWHEAD_ZONE_MAP is dropped:   *)
(* its positions reach neither self.coordinates nor a bucket, the run does *)
(* not abort at it, and "Found unlisted zone" is printed for it exactly    *)
(* when its id is not in WOWHEAD_ZONE_SUPPRESSION.                         *)
C17_UnmappedDropped ==
    /\ Logged(log, "Found unlisted zone") = Unlisted(Done)
    /\ status = "raised" /\ todo # << >> => Mapped(Head(todo))
    /\ \A k \in 1..Len(coordinates) :
           /\ coordinates[k].zone \in ConfiguredZones
           /\ \A j \in 1..Len(coordinates[k].coords) :
                  coordinates[k].coords[j] # <<F0, F0>>
    /\ \A a \in 1..Len(coords) : <<coords[a].x, coords[a].y>> # <<F0, F0>>
    /\ \A i \in 1..Len(zones) : zones[i].zone \in ConfiguredZones

(* The Aggregate is built from a page whose zones were an unmapped one     *)
(* that is not suppressed, a suppressed one and then a mapped one.         *)
C17_Witness ==
    /\ status = "ready"
    /\ zones # << >>
    /\ Len(pages[1].zones) >= 3
    /\ pages[1].zones[1].zone = "9999"
    /\ pages[1].zones[2].zone = "718"
    /\ Mapped(pages[1].zones[3])
    /\ Logged(log, "Found unlisted zone") = <<"9999">>

-----------------------------------------------------------------------------
(* C18: the run does not abort at a mapped zone, whether the page names it *)
(* as configured, otherwise or not at all, and whatever the title: the     *)
(* positions the zone lists are filed under the configured Zone, and reach *)
(* its bucket with the configured code.                                    *)
C18_MismatchNonFatal ==
    /\ status = "raised" => todo = << >>
    /\ \A w \in ConfiguredZones : FiledUnder(w) = ListedFor(Done, w)
    /\ \A i \in 1..Len(zones) :
           /\ zones[i].zone \in ConfiguredZones
           /\ Len(zones[i].entries) = FiledUnder(zones[i].zone)
           /\ \A j \in 1..Len(zones[i].entries) :
                  zones[i].entries[j].entry_id = GathermateId

-----------------------------------------------------------------------------
(* C19: a page without g_mapperData and a zone without a coordinate list   *)
(* contribute nothing and do not abort the run: "No locations" is printed  *)
(* for each such page, the run never stops at such a zone, and a Zone is   *)
(* in self.coordinates (and so gets a bucket) only when a zone listed      *)
(* positions for it.                                                       *)
C19_MissingNonFatal ==
    /\ Logged(log, "No locations")
         = Concat([i \in 1..fetched |->
                     IF pages[i].blob THEN << >> ELSE <<pages[i].id>>])
    /\ status = "raised" /\ todo # << >> => Head(todo).listed
    /\ \A w \in ConfiguredZones :
           (\E k \in 1..Len(coordinates) : coordinates[k].zone = w)
               <=> ListedFor(Done, w) > 0
    /\ \A i \in 1..Len(zones) : ListedFor(Done, zones[i].zone) > 0

-----------------------------------------------------------------------------
(* C20: a serialization leaves the Aggregate as it was: its type, its      *)
(* buckets with their entries in order, and every Coordinate with its      *)
(* stored key.                                                             *)
C20_ReprPure ==
    [][printed' => (type' = type /\ zones' = zones /\ coords' = coords)]_vars

-----------------------------------------------------------------------------
(* C21: for any sequence that mixes add calls and serializations, two add  *)
(* calls made with the same zone and the same position leave their entries *)
(* with different keys: the later one is bumped, also when the Aggregate   *)
(* was serialized between the two.                                         *)
C21_UniqueAcrossEmission ==
    \A j \in 1..Len(calls) : \A k \in (j + 1)..Len(calls) :
        SameRecord(j, k)
            => KeyOf(calls[j].entry.coordinate) # KeyOf(calls[k].entry.coordinate)

-----------------------------------------------------------------------------
(* C22: every add call returns, having incremented the key of its entry at *)
(* most as many times as its bucket had entries; in a run of add calls for *)
(* one zone the bucket has k - 1 entries at the call k, so the entry's key *)
(* is nominal + (k - 1) at most.                                           *)
C22_AddTerminates ==
    \A k \in 1..Len(calls) :
        /\ calls[k].returned
        /\ ~IntLess(IntPlus(Nominal(calls[k].entry.coordinate), k - 1),
                    KeyOf(calls[k].entry.coordinate))

-----------------------------------------------------------------------------
(* No two entries of one bucket have the same key.                         *)
UniqueKeys ==
    \A i \in 1..Len(zones) :
        \A k, l \in 1..Len(zones[i].entries) :
            k # l => KeyOf(zones[i].entries[k].coordinate)
                        # KeyOf(zones[i].entries[l].coordinate)

(* C23: when no add call enters the while loop for a bucket while another  *)
(* call is between its while loop and its append for that bucket (the      *)
(* probe-and-append of each call runs under mutual exclusion per bucket),  *)
(* no two entries of one bucket have the same key, however the calls are   *)
(* interleaved otherwise.                                                  *)
C23_ExclusiveUnique == ~overlapped => UniqueKeys

-----------------------------------------------------------------------------
(* v <= w for two floats v, w >= 0.                                        *)
FloatLeq(v, w) ==
    \/ v.m = << >>
    \/ /\ w.m # << >>
       /\ \/ v.e < w.e
          \/ v.e = w.e /\ CmpLimbs[v.m, w.m] <= 0

(* The scaled pair of the coordinate a is lexicographically smaller than   *)
(* that of the coordinate b.                                               *)
GridLess(a, b) ==
    \/ Grid[coords[a].x] < Grid[coords[b].x]
    \/ /\ Grid[coords[a].x] = Grid[coords[b].x]
       /\ Grid[coords[a].y] < Grid[coords[b].y]

(* The key of a is not above the key of b when a and b have one y and      *)
(* a.x <= b.x, and when they have one x and a.y <= b.y.                    *)
NonDecreasing(a, b) ==
    /\ (coords[a].y = coords[b].y /\ FloatLeq(coords[a].x, coords[b].x))
           => ~IntLess(KeyOf(b), KeyOf(a))
    /\ (coords[a].x = coords[b].x /\ FloatLeq(coords[a].y, coords[b].y))
           => ~IntLess(KeyOf(b), KeyOf(a))

(* The y term of a carries into the x term and meets b: a has y scaled to  *)
(* 10000, b has a scaled x one greater and y scaled to 0.                  *)
Carried(a, b) ==
    /\ Grid[coords[a].y] = 10000
    /\ Grid[coords[b].x] = Grid[coords[a].x] + 1
    /\ Grid[coords[b].y] = 0

(* C24 as claimed: the key is non-decreasing in x and in y, and the key of *)
(* a is below the key of b exactly when the scaled pair of a is            *)
(* lexicographically smaller than that of b, for all x, y in [0, 100].     *)
C24_MonotoneAsClaimed ==
    \A a, b \in 1..Len(coords) :
        /\ NonDecreasing(a, b)
        /\ IntLess(KeyOf(a), KeyOf(b)) <=> GridLess(a, b)

(* C24 amended: the same, except that a position with y scaled to 10000    *)
(* and the position with a scaled x one greater and y scaled to 0 have the *)
(* same key.                                                               *)
C24_Monotone ==
    \A a, b \in 1..Len(coords) :
        /\ NonDecreasing(a, b)
        /\ IF Carried(a, b) THEN KeyOf(a) = KeyOf(b)
           ELSE IF Carried(b, a) THEN KeyOf(b) = KeyOf(a)
           ELSE IntLess(KeyOf(a), KeyOf(b)) <=> GridLess(a, b)

(* Both keys are computed; the first position has the smaller scaled x and *)
(* the greater scaled y, and the smaller key.                              *)
C24_Witness ==
    /\ coords[1].coord # IntZero /\ coords[2].coord # IntZero
    /\ Grid[coords[1].x] < Grid[coords[2].x]
    /\ Grid[coords[1].y] > Grid[coords[2].y]
    /\ IntLess(coords[1].coord, coords[2].coord)

-----------------------------------------------------------------------------
(* C25: an add call leaves every entry already in the Aggregate with its   *)
(* key, its code and its position, leaves the entry lists of the buckets   *)
(* of the other zones as they are, and leaves the buckets there were in    *)
(* their order.                                                            *)
C25_AddFrame ==
    [][Len(calls') = Len(calls) + 1 =>
        /\ \A a \in Held(zones) :
               /\ as_gatherer_coord(coords'[a]) = as_gatherer_coord(coords[a])
               /\ coords'[a].x = coords[a].x
               /\ coords'[a].y = coords[a].y
        /\ Len(zones') >= Len(zones)
        /\ \A i \in 1..Len(zones) :
               /\ zones'[i].zone = zones[i].zone
               /\ zones[i].zone # calls'[Len(calls')].zone
                      => zones'[i].entries = zones[i].entries
               /\ Len(zones'[i].entries) >= Len(zones[i].entries)
               /\ \A k \in 1..Len(zones[i].entries) :
                      zones'[i].entries[k] = zones[i].entries[k]]_vars

(* The third add call has bumped its key in a bucket of two entries, with  *)
(* the bucket of another zone in front of it.                              *)
C25_Witness ==
    /\ Len(calls) = 3
    /\ calls[3].bumped
    /\ Len(zones) = 2
    /\ zones[2].zone = calls[3].zone
    /\ Len(zones[2].entries) = 2

-----------------------------------------------------------------------------
(* The positions the zones of zs list for the Zone w, in order.            *)
RECURSIVE CollectedFor(_, _)
CollectedFor(zs, w) ==
    IF zs = << >> THEN << >>
    ELSE (IF Mapped(Head(zs)) /\ WOWHEAD_ZONE_MAP[Head(zs).zone] = w /\ Head(zs).listed
          THEN Head(zs).coords ELSE << >>) \o CollectedFor(Tail(zs), w)

(* The positions self.coordinates holds for the Zone w.                    *)
CoordsUnder(w) ==
    IF \E k \in 1..Len(coordinates) : coordinates[k].zone = w
    THEN coordinates[CHOOSE k \in 1..Len(coordinates) : coordinates[k].zone = w].coords
    ELSE << >>

(* self.coordinates as the sequence of its (Zone, position) pairs, in the  *)
(* order the loops of Aggregate.__init__ take them.                        *)
Collected ==
    Concat([k \in 1..Len(coordinates) |->
              [j \in 1..Len(coordinates[k].coords) |->
                  <<coordinates[k].zone, coordinates[k].coords[j]>>]])

(* C26: the positions self.coordinates holds for a Zone are those the      *)
(* zones dealt with so far list for it, in fetch order, whichever page     *)
(* they come from; and the Aggregate built from the object has had one add *)
(* call for each position of self.coordinates, with a Coordinate of its    *)
(* own and the object's code.                                              *)
C26_Accumulated ==
    /\ \A w \in ConfiguredZones : CoordsUnder(w) = CollectedFor(Done, w)
    /\ status = "ready" =>
           /\ Len(calls) = Len(Collected)
           /\ \A k \in 1..Len(calls) :
                  /\ calls[k].zone = Collected[k][1]
                  /\ calls[k].entry.coordinate = k
                  /\ <<coords[k].x, coords[k].y>> = Collected[k][2]
                  /\ calls[k].entry.entry_id = GathermateId

(* The Aggregate is built from two pages that both list a position for the *)
(* zone "14", the second another one than the first.                       *)
C26_Witness ==
    /\ status = "ready"
    /\ Len(pages) = 2
    /\ CoordsUnder(WOWHEAD_ZONE_MAP["14"]) = << <<F10, F10>>, <<F10a, F10>> >>
    /\ Len(zones) = 2
    /\ Len(calls) = 3

=============================================================================
